---------------------------- MODULE Spec2Model ----------------------------
(***************************************************************************)
(* Model of src/client/components/SchemaBuilder.tsx: the field tree held   *)
(* in the SchemaBuilder component's state, the edit handlers of FieldRow   *)
(* and SchemaBuilder, and the projection convertFieldsToSchema.            *)
(*                                                                         *)
(* Conventions.  Arrays are sequences; a JavaScript index i is the         *)
(* sequence index i + 1.  The optional property `nested?: SchemaField[]`   *)
(* is <<>> when undefined and <<s>> when it holds the array s.  A JSON     *)
(* object is the sequence of its entries in insertion order.               *)
(***************************************************************************)
EXTENDS Integers, Sequences, FiniteSets, TLC

VARIABLES fields, rendered, prev, last, nops, crashed

vars == <<fields, rendered, prev, last, nops, crashed>>

\* Number of handler invocations explored.
MaxOps == 3

\* Texts typed into a name input.
NameInputs == {"", "name"}

FieldType == {"string", "number", "nested"}

\* Outcomes of Math.random().toString(36).substr(2, 9): 0.5 gives "i", 0.25 gives "9".
generateId == {"i", "9"}

undefined == <<>>

Some(s) == <<s>>

\* field.nested || []
NestedOrEmpty(field) == IF field.nested = undefined THEN <<>> ELSE field.nested[1]

\* An empty slot of a sparse array, and an array element holding undefined.
Hole == [id |-> "", name |-> "", type |-> "<empty>", enabled |-> FALSE, nested |-> undefined]

UndefElem == [id |-> "", name |-> "", type |-> "<undefined>", enabled |-> FALSE, nested |-> undefined]

IsField(x) == x.type \in FieldType

\* Variant: a field created with an empty children array.
NewField_withChildren(id) ==
  [id |-> id, name |-> "", type |-> "string", enabled |-> TRUE, nested |-> Some(<<>>)]

NewField(id) == [id |-> id, name |-> "", type |-> "string", enabled |-> TRUE, nested |-> undefined]

Seed ==
  << [id |-> "1", name |-> "name", type |-> "string", enabled |-> TRUE, nested |-> undefined],
     [id |-> "2", name |-> "class", type |-> "number", enabled |-> TRUE, nested |-> undefined],
     [id |-> "3", name |-> "address", type |-> "nested", enabled |-> TRUE, nested |-> Some(
        << [id |-> "4", name |-> "line", type |-> "number", enabled |-> TRUE, nested |-> undefined],
           [id |-> "5", name |-> "", type |-> "string", enabled |-> TRUE, nested |-> undefined] >>)] >>

Front(p) == SubSeq(p, 1, Len(p) - 1)

Last(p) == p[Len(p)]

\* items.filter((_, i) => i !== index); filter visits no empty slot.
FilterIndex(items, index) ==
  LET keep == {i \in 1..Len(items) : i # index /\ items[i] # Hole}
      RECURSIVE build(_)
      build(i) == IF i > Len(items) THEN <<>>
                  ELSE IF i \in keep THEN <<items[i]>> \o build(i + 1)
                  ELSE build(i + 1)
  IN build(1)

\* [...items]: a spread copy reads every index, an empty slot reads as undefined.
SpreadArray(items) == [i \in 1..Len(items) |-> IF items[i] = Hole THEN UndefElem ELSE items[i]]

\* { ...field, ...updates }
SpreadObject(field, updates) ==
  LET pick(k) == IF k \in DOMAIN updates THEN updates[k] ELSE field[k]
  IN [id |-> pick("id"), name |-> pick("name"), type |-> pick("type"),
      enabled |-> pick("enabled"), nested |-> pick("nested")]

(***************************************************************************)
(* FieldRow: each handler computes the field object handed to onUpdate.    *)
(***************************************************************************)
FieldRow_updateField(field, updates) == SpreadObject(field, updates)

updateNestedField(field, index, updatedNestedField) ==
  LET newNested == [SpreadArray(NestedOrEmpty(field)) EXCEPT ![index] = updatedNestedField]
  IN FieldRow_updateField(field, [nested |-> Some(newNested)])

\* Variant: the filter drops the element after the clicked one.
removeNestedField_offByOne(field, index) ==
  FieldRow_updateField(field, [nested |-> Some(FilterIndex(NestedOrEmpty(field), index + 1))])

removeNestedField(field, index) ==
  LET newNested == FilterIndex(NestedOrEmpty(field), index)
  IN FieldRow_updateField(field, [nested |-> Some(newNested)])

addNestedField(field, id) ==
  LET newNested == Append(SpreadArray(NestedOrEmpty(field)), NewField(id))
  IN FieldRow_updateField(field, [nested |-> Some(newNested)])

\* Variant: a change away from "nested" keeps the children array.
onValueChange_keepChildren(field, value) ==
  FieldRow_updateField(field,
    IF value = "nested" /\ field.nested = undefined
      THEN [type |-> value, nested |-> Some(<<>>)]
      ELSE [type |-> value])

onValueChange(field, value) ==
  LET updates == IF value = "nested" /\ field.nested = undefined
                    THEN [type |-> value, nested |-> Some(<<>>)]
                 ELSE IF value # "nested"
                    THEN [type |-> value, nested |-> undefined]
                 ELSE [type |-> value]
  IN FieldRow_updateField(field, updates)

onChange(field, value) == FieldRow_updateField(field, [name |-> value])

onCheckedChange(field, enabled) == FieldRow_updateField(field, [enabled |-> enabled])

\* The field a row at path p was rendered with.
RECURSIVE FieldAt(_, _)
FieldAt(items, p) ==
  IF Len(p) = 1 THEN items[p[1]]
  ELSE FieldAt(NestedOrEmpty(items[p[1]]), Tail(p))

\* The rows of a render: one per array element, children under a nested field only.
RECURSIVE RowPaths(_, _)
RowPaths(field, p) ==
  {p} \cup
  IF field.type = "nested" /\ field.nested # undefined
    THEN UNION {RowPaths(field.nested[1][i], Append(p, i)) : i \in 1..Len(field.nested[1])}
    ELSE {}

Rows(R) == UNION {RowPaths(R[i], <<i>>) : i \in {j \in 1..Len(R) : R[j] # Hole}}

\* onUpdate of the row at path p of render R, followed up the chain of parents'
\* updateNestedField to the root row: the field handed to SchemaBuilder.updateField.
RECURSIVE onUpdate(_, _, _)
onUpdate(R, p, updatedField) ==
  IF Len(p) = 1 THEN updatedField
  ELSE onUpdate(R, Front(p), updateNestedField(FieldAt(R, Front(p)), Last(p), updatedField))

(***************************************************************************)
(* SchemaBuilder: the updater functions given to setFields.                *)
(***************************************************************************)
\* Variant: the new field is put first.
addField_prepend(fs, id) == <<NewField(id)>> \o SpreadArray(fs)

addField(fs, id) == Append(SpreadArray(fs), NewField(id))

\* newFields[index] = updatedField: an index past the end extends the array.
updateField(fs, index, updatedField) ==
  LET newFields == SpreadArray(fs)
  IN IF index <= Len(newFields) THEN [newFields EXCEPT ![index] = updatedField]
     ELSE [i \in 1..index |-> IF i <= Len(newFields) THEN newFields[i]
                              ELSE IF i = index THEN updatedField ELSE Hole]

removeField(fs, index) == FilterIndex(fs, index)

(***************************************************************************)
(* generateSchema.  JSON values are strings or objects.                    *)
(***************************************************************************)
Str(s) == [kind |-> "string", str |-> s, obj |-> <<>>]

Obj(o) == [kind |-> "object", str |-> "", obj |-> o]

\* Variant: an assignment to a key already present is dropped.
Assign_keepFirst(result, key, value) ==
  IF \E i \in 1..Len(result) : result[i].key = key
    THEN result
    ELSE Append(result, [key |-> key, value |-> value])

\* result[key] = value
Assign(result, key, value) ==
  IF \E i \in 1..Len(result) : result[i].key = key
    THEN [i \in 1..Len(result) |->
            IF result[i].key = key THEN [key |-> key, value |-> value] ELSE result[i]]
    ELSE Append(result, [key |-> key, value |-> value])

\* Variant: disabled fields are projected too.
SkipField_never(field) == field = Hole

\* Variant: a string field projects to the placeholder whatever its name.
StringValue_placeholder(fieldName) == Str("STRING")

\* if (!field.enabled) return; forEach visits no empty slot.
SkipField(field) == field = Hole \/ ~field.enabled

\* fieldName === "" ? "" : "STRING"
StringValue(fieldName) == IF fieldName = "" THEN Str("") ELSE Str("STRING")

RECURSIVE convertFieldsToSchema(_)
convertFieldsToSchema(fs) ==
  LET RECURSIVE forEach(_, _)
      forEach(i, result) ==
        IF i > Len(fs) THEN result
        ELSE LET field == fs[i]
                 fieldName == field.name
             IN IF SkipField(field) THEN forEach(i + 1, result)
                ELSE IF field.type = "string"
                  THEN forEach(i + 1, Assign(result, fieldName, StringValue(fieldName)))
                ELSE IF field.type = "number"
                  THEN forEach(i + 1, Assign(result, fieldName, Str("number")))
                ELSE IF field.type = "nested"
                  THEN IF field.nested # undefined /\ Len(field.nested[1]) > 0
                         THEN forEach(i + 1, Assign(result, fieldName,
                                        Obj(convertFieldsToSchema(field.nested[1]))))
                         ELSE forEach(i + 1, Assign(result, fieldName, Obj(<<>>)))
                ELSE forEach(i + 1, result)
  IN forEach(1, <<>>)

\* field.enabled on an undefined element throws a TypeError during render.
Throws(fs) == \E i \in 1..Len(fs) : fs[i] = UndefElem

generateSchema == convertFieldsToSchema(fields)

(***************************************************************************)
(* State machine.  fields is the component state, rendered the tree the    *)
(* rows and their handlers were last rendered from; prev and last record   *)
(* the tree before the latest handler and that handler's arguments: the    *)
(* row's path and id in the render, and the value the widget supplied.     *)
(***************************************************************************)
Init ==
  /\ fields = Seed
  /\ rendered = Seed
  /\ prev = Seed
  /\ last = [kind |-> "init", path |-> <<>>, id |-> "", arg |-> ""]
  /\ nops = 0
  /\ crashed = FALSE

Handle(kind, p, arg, newFields) ==
  /\ nops < MaxOps
  /\ ~crashed
  /\ fields' = newFields
  /\ prev' = fields
  /\ last' = [kind |-> kind, path |-> p, arg |-> arg,
              id |-> IF p = <<>> THEN "" ELSE FieldAt(rendered, p).id]
  /\ nops' = nops + 1
  /\ UNCHANGED crashed

ClickAddField == \E id \in generateId : Handle("add", <<>>, id, addField(fields, id))

ClickAddNestedField ==
  \E p \in Rows(rendered), id \in generateId :
    /\ FieldAt(rendered, p).type = "nested"
    /\ Handle("add", p, id,
              updateField(fields, p[1], onUpdate(rendered, p, addNestedField(FieldAt(rendered, p), id))))

TypeName ==
  \E p \in Rows(rendered), value \in NameInputs :
    Handle("name", p, value,
           updateField(fields, p[1], onUpdate(rendered, p, onChange(FieldAt(rendered, p), value))))

SelectType ==
  \E p \in Rows(rendered), value \in FieldType :
    Handle("type", p, value,
           updateField(fields, p[1], onUpdate(rendered, p, onValueChange(FieldAt(rendered, p), value))))

ToggleEnabled ==
  \E p \in Rows(rendered) :
    LET enabled == ~FieldAt(rendered, p).enabled
    IN Handle("enabled", p, IF enabled THEN "true" ELSE "false",
              updateField(fields, p[1], onUpdate(rendered, p, onCheckedChange(FieldAt(rendered, p), enabled))))

ClickRemove ==
  \E p \in Rows(rendered) :
    Handle("remove", p, "",
           IF Len(p) = 1 THEN removeField(fields, p[1])
           ELSE updateField(fields, p[1],
                            onUpdate(rendered, Front(p), removeNestedField(FieldAt(rendered, Front(p)), Last(p)))))

\* React re-renders after every event: the next handlers close over the new tree.
ReRender == rendered' = fields'

AddField == ClickAddField /\ ReRender

AddNestedField == ClickAddNestedField /\ ReRender

ChangeName == TypeName /\ ReRender

ChangeType == SelectType /\ ReRender

SwitchEnabled == ToggleEnabled /\ ReRender

Remove == ClickRemove /\ ReRender

Next ==
  \/ AddField
  \/ AddNestedField
  \/ ChangeName
  \/ ChangeType
  \/ SwitchEnabled
  \/ Remove

Spec == Init /\ [][Next]_vars

(***************************************************************************)
(* Batched events.  React applies the queued setFields updaters in order   *)
(* and renders once afterwards, so several handlers of one render may run  *)
(* before the rows are rendered again: each closes over the rendered       *)
(* field, while the root updaters receive the latest state.                *)
(***************************************************************************)
AddFieldBatched == ClickAddField /\ UNCHANGED rendered

AddNestedFieldBatched == ClickAddNestedField /\ UNCHANGED rendered

ChangeNameBatched == TypeName /\ UNCHANGED rendered

ChangeTypeBatched == SelectType /\ UNCHANGED rendered

SwitchEnabledBatched == ToggleEnabled /\ UNCHANGED rendered

RemoveBatched == ClickRemove /\ UNCHANGED rendered

\* The render calls generateSchema first; an uncaught TypeError unmounts the component.
Render ==
  /\ ~crashed
  /\ rendered # fields
  /\ IF Throws(fields)
       THEN crashed' = TRUE /\ UNCHANGED rendered
       ELSE rendered' = fields /\ UNCHANGED crashed
  /\ UNCHANGED <<fields, prev, last, nops>>

NextBatch ==
  \/ AddFieldBatched
  \/ AddNestedFieldBatched
  \/ ChangeNameBatched
  \/ ChangeTypeBatched
  \/ SwitchEnabledBatched
  \/ RemoveBatched
  \/ Render

SpecBatch == Init /\ [][NextBatch]_vars

(***************************************************************************)
(* Vocabulary of the properties.                                           *)
(***************************************************************************)
RECURSIVE SubPaths(_, _)
SubPaths(field, p) ==
  {p} \cup UNION {SubPaths(NestedOrEmpty(field)[i], Append(p, i)) :
                    i \in 1..Len(NestedOrEmpty(field))}

\* Every position of the tree, whatever the types on the way.
AllPaths(items) == UNION {SubPaths(items[i], <<i>>) : i \in 1..Len(items)}

ExistingPaths(items) == {p \in AllPaths(items) : IsField(items[p[1]])}

\* The sequence the field at path p lives in.
Siblings(items, p) == IF Len(p) = 1 THEN items ELSE NestedOrEmpty(FieldAt(items, Front(p)))

\* Every sequence of the tree: the root and each field's children.
AllSeqs(items) == {items} \cup {NestedOrEmpty(FieldAt(items, p)) : p \in AllPaths(items)}

Shallow(f) == <<f.id, f.name, f.type, f.enabled>>

Under(q, p) == Len(q) >= Len(p) /\ SubSeq(q, 1, Len(p)) = p

RECURSIVE ReplaceAt(_, _, _)
ReplaceAt(items, p, f) ==
  IF Len(p) = 1 THEN [items EXCEPT ![p[1]] = f]
  ELSE LET parent == items[p[1]]
           children == ReplaceAt(NestedOrEmpty(parent), Tail(p), f)
       IN [items EXCEPT ![p[1]] = [parent EXCEPT !.nested = Some(children)]]

DropIndex(items, i) == SubSeq(items, 1, i - 1) \o SubSeq(items, i + 1, Len(items))

RECURSIVE RemoveAt(_, _)
RemoveAt(items, p) ==
  IF Len(p) = 1 THEN DropIndex(items, p[1])
  ELSE LET parent == items[p[1]]
           children == RemoveAt(NestedOrEmpty(parent), Tail(p))
       IN [items EXCEPT ![p[1]] = [parent EXCEPT !.nested = Some(children)]]

HasKey(obj, key) == \E i \in 1..Len(obj) : obj[i].key = key

Count(obj, key) == Cardinality({i \in 1..Len(obj) : obj[i].key = key})

Lookup(obj, key) == obj[CHOOSE i \in 1..Len(obj) : obj[i].key = key].value

\* S[i] is enabled and no later enabled sibling has its name.
LastEnabledOfName(S, i) ==
  /\ S[i].enabled
  /\ \A j \in (i + 1)..Len(S) : ~(S[j].enabled /\ S[j].name = S[i].name)

\* The value the specification gives a field under its name.
Expected(f) ==
  CASE f.type = "string" -> IF f.name = "" THEN Str("") ELSE Str("STRING")
    [] f.type = "number" -> Str("number")
    [] f.type = "nested" -> IF NestedOrEmpty(f) = <<>> THEN Obj(<<>>)
                            ELSE Obj(convertFieldsToSchema(NestedOrEmpty(f)))

SeedSchema ==
  << [key |-> "name", value |-> Str("STRING")],
     [key |-> "class", value |-> Str("number")],
     [key |-> "address", value |-> Obj(<< [key |-> "line", value |-> Str("number")],
                                          [key |-> "", value |-> Str("")] >>)] >>

\* The tree without its disabled fields and their subtrees.
RECURSIVE Prune(_)
Prune(items) ==
  LET RECURSIVE walk(_)
      walk(i) ==
        IF i > Len(items) THEN <<>>
        ELSE IF ~items[i].enabled THEN walk(i + 1)
        ELSE IF items[i].nested = undefined THEN <<items[i]>> \o walk(i + 1)
        ELSE <<[items[i] EXCEPT !.nested = Some(Prune(items[i].nested[1]))]>> \o walk(i + 1)
  IN walk(1)

(***************************************************************************)
(* Properties.                                                             *)
(***************************************************************************)

\* C1: in every reachable state every field of the tree, at any depth, has
\* `nested` defined if and only if its type is "nested".
C1_ChildrenIffNested ==
  \A p \in AllPaths(fields) :
    (FieldAt(fields, p).nested # undefined) <=> (FieldAt(fields, p).type = "nested")

\* A field below the root that was nested has just been given another type.
C1_Witness ==
  /\ last.kind = "type"
  /\ last.arg # "nested"
  /\ Len(last.path) >= 2
  /\ FieldAt(prev, last.path).type = "nested"
  /\ FieldAt(fields, last.path).type = last.arg

\* C2: a type change to "string" or "number" leaves the field without children,
\* and a type change to "nested" of a field that was not nested leaves it with an
\* empty children sequence, whatever children it had earlier.
C2_DiscardThenEmpty ==
  /\ (last.kind = "type" /\ last.arg # "nested")
       => FieldAt(fields, last.path).nested = undefined
  /\ (last.kind = "type" /\ last.arg = "nested" /\ FieldAt(prev, last.path).type # "nested")
       => FieldAt(fields, last.path).nested = Some(<<>>)

\* The seed field "address", created with two children, had lost the type
\* "nested" and has just been switched back to it.
C2_Witness ==
  /\ last.kind = "type"
  /\ last.arg = "nested"
  /\ last.path = <<3>>
  /\ prev[3].id = "3"
  /\ prev[3].type # "nested"
  /\ fields[3].type = "nested"
  /\ fields[3].nested = Some(<<>>)

\* C3: the ids of all fields of the tree are pairwise distinct.
C3_UniqueIds ==
  \A p, q \in AllPaths(fields) :
    p # q => FieldAt(fields, p).id # FieldAt(fields, q).id

\* C5: in every sequence of the tree, each enabled field that is the last enabled
\* sibling of its name projects under its name to "STRING" (string, non-empty name),
\* "" (string, empty name), "number" (number), {} (nested, no children) or the
\* projection of its children (nested, with children); the seed tree projects to
\* {"name":"STRING","class":"number","address":{"line":"number","":""}}.
C5_ProjectedValues ==
  /\ \A S \in AllSeqs(fields) :
       \A i \in 1..Len(S) :
         LastEnabledOfName(S, i)
           => /\ HasKey(convertFieldsToSchema(S), S[i].name)
              /\ Lookup(convertFieldsToSchema(S), S[i].name) = Expected(S[i])
  /\ fields = Seed => generateSchema = SeedSchema

\* Some field projects to each of the five kinds of value, and an enabled field
\* lies three levels deep.
C5_Witness ==
  LET Shown(v) == \E S \in AllSeqs(fields) : \E i \in 1..Len(S) :
                    /\ LastEnabledOfName(S, i)
                    /\ Lookup(convertFieldsToSchema(S), S[i].name) = v
      ShownObject == \E S \in AllSeqs(fields) : \E i \in 1..Len(S) :
                    /\ LastEnabledOfName(S, i)
                    /\ S[i].type = "nested"
                    /\ Len(NestedOrEmpty(S[i])) > 0
                    /\ Lookup(convertFieldsToSchema(S), S[i].name).obj # <<>>
  IN /\ Shown(Str("STRING"))
     /\ Shown(Str(""))
     /\ Shown(Str("number"))
     /\ Shown(Obj(<<>>))
     /\ ShownObject
     /\ \E p \in AllPaths(fields) : Len(p) = 3 /\ FieldAt(fields, p).enabled

\* C6: the projection of the tree equals the projection of the tree with every
\* disabled field and its subtree removed, and after a field is switched to
\* disabled the projection is the one of the previous tree without that field.
C6_DisabledContributeNothing ==
  /\ convertFieldsToSchema(fields) = convertFieldsToSchema(Prune(fields))
  /\ (last.kind = "enabled" /\ last.arg = "false")
       => convertFieldsToSchema(fields) = convertFieldsToSchema(RemoveAt(prev, last.path))

\* A nested field below the root, holding an enabled child, has just been disabled,
\* and its key left its parent's mapping.
C6_Witness ==
  /\ last.kind = "enabled"
  /\ last.arg = "false"
  /\ Len(last.path) >= 2
  /\ FieldAt(fields, last.path).type = "nested"
  /\ \E i \in 1..Len(NestedOrEmpty(FieldAt(fields, last.path))) :
       NestedOrEmpty(FieldAt(fields, last.path))[i].enabled
  /\ HasKey(convertFieldsToSchema(Siblings(prev, last.path)), FieldAt(prev, last.path).name)
  /\ ~HasKey(convertFieldsToSchema(Siblings(fields, last.path)), FieldAt(prev, last.path).name)

\* C7: after the removal of a field, at any depth, the projection of the sequence it
\* was removed from has no entry under the removed field's name, unless another
\* field of that sequence has the same name.
C7_RemovedKeyAbsent ==
  last.kind = "remove" =>
    LET removed == FieldAt(prev, last.path)
        before == Siblings(prev, last.path)
        after == Siblings(fields, last.path)
    IN (\A j \in 1..Len(before) : j # Last(last.path) => before[j].name # removed.name)
         => ~HasKey(convertFieldsToSchema(after), removed.name)

\* An enabled field below the root, whose key was in its parent's mapping and which
\* shares its name with no sibling, has just been removed.
C7_Witness ==
  /\ last.kind = "remove"
  /\ Len(last.path) >= 2
  /\ FieldAt(prev, last.path).enabled
  /\ HasKey(convertFieldsToSchema(Siblings(prev, last.path)), FieldAt(prev, last.path).name)
  /\ \A j \in 1..Len(Siblings(prev, last.path)) :
       j # Last(last.path) => Siblings(prev, last.path)[j].name # FieldAt(prev, last.path).name
  /\ Len(Siblings(fields, last.path)) = Len(Siblings(prev, last.path)) - 1

\* The position, after the removal of the field at path p, of the field at path q.
Shift(q, p) ==
  IF Len(q) >= Len(p) /\ SubSeq(q, 1, Len(p) - 1) = Front(p) /\ q[Len(p)] > Last(p)
    THEN [q EXCEPT ![Len(p)] = @ - 1]
    ELSE q

\* C8: an add appends the new field as the last element of its sequence and keeps
\* every other field at its position; a remove deletes exactly the field at the
\* given position with its subtree and moves each later sibling (and its subtree)
\* down by one; an update keeps every field at its position, dropping only the
\* subtree of a field that stops being nested.
C8_OrderPreserved ==
  /\ last.kind = "add" =>
       LET target == IF last.path = <<>> THEN prev ELSE NestedOrEmpty(FieldAt(prev, last.path))
           new == Append(last.path, Len(target) + 1)
       IN /\ AllPaths(fields) = AllPaths(prev) \cup {new}
          /\ new \notin AllPaths(prev)
          /\ FieldAt(fields, new) = NewField(last.arg)
          /\ \A q \in AllPaths(prev) : Shallow(FieldAt(fields, q)) = Shallow(FieldAt(prev, q))
  /\ last.kind = "remove" =>
       LET kept == {q \in AllPaths(prev) : ~Under(q, last.path)}
       IN /\ AllPaths(fields) = {Shift(q, last.path) : q \in kept}
          /\ \A q \in kept :
               Shallow(FieldAt(fields, Shift(q, last.path))) = Shallow(FieldAt(prev, q))
  /\ last.kind \in {"name", "enabled", "type"} =>
       LET kept == {q \in AllPaths(prev) : q = last.path \/ ~Under(q, last.path)}
       IN /\ kept \subseteq AllPaths(fields)
          /\ AllPaths(fields) \subseteq AllPaths(prev)
          /\ last.kind # "type" => AllPaths(fields) = AllPaths(prev)
          /\ \A q \in AllPaths(fields) :
               /\ FieldAt(fields, q).id = FieldAt(prev, q).id
               /\ q # last.path => Shallow(FieldAt(fields, q)) = Shallow(FieldAt(prev, q))

\* A field below the root that had a later sibling has just been removed, and that
\* sibling now stands at the removed field's position.
C8_Witness ==
  /\ last.kind = "remove"
  /\ Len(last.path) >= 2
  /\ Last(last.path) < Len(Siblings(prev, last.path))
  /\ FieldAt(fields, last.path) = Siblings(prev, last.path)[Last(last.path) + 1]
  /\ FieldAt(fields, last.path) # FieldAt(prev, last.path)

\* C9: when two or more enabled fields of one sequence share a name, the projection
\* of the sequence has exactly one entry under that name, holding the value of the
\* last enabled field of that name; a disabled later field does not overwrite it.
C9_LastWriteWins ==
  \A S \in AllSeqs(fields) :
    \A i, j \in 1..Len(S) :
      (i < j /\ S[i].enabled /\ S[j].enabled /\ S[i].name = S[j].name /\ LastEnabledOfName(S, j))
        => /\ Count(convertFieldsToSchema(S), S[j].name) = 1
           /\ Lookup(convertFieldsToSchema(S), S[j].name) = Expected(S[j])

\* Three root fields share the name "name": an enabled string, an enabled number and
\* a disabled nested field after them; the mapping holds the number's value alone.
C9_Witness ==
  /\ Len(fields) = 3
  /\ \A i \in 1..3 : fields[i].name = "name"
  /\ fields[1].enabled /\ fields[1].type = "string"
  /\ fields[2].enabled /\ fields[2].type = "number"
  /\ ~fields[3].enabled /\ fields[3].type = "nested"
  /\ generateSchema = <<[key |-> "name", value |-> Str("number")]>>

\* C4: an update or remove whose path resolves to no field of the current tree
\* leaves the tree unchanged.
C4_InvalidPathRejected ==
  (last.kind \in {"name", "enabled", "type", "remove"} /\ last.path \notin ExistingPaths(prev))
    => fields = prev

\* C10: a handler issued for a field that is still at its path in the current tree
\* changes the current tree by its own edit and nothing else: an update is merged
\* over the current field, an add appends to the current children, a remove drops
\* the current field.
C10_EditsCurrentTree ==
  (last.kind \in {"name", "enabled", "type", "add", "remove"} /\ last.path # <<>>
     /\ last.path \in ExistingPaths(prev) /\ FieldAt(prev, last.path).id = last.id)
    => LET current == FieldAt(prev, last.path)
       IN fields =
            CASE last.kind = "name" -> ReplaceAt(prev, last.path, [current EXCEPT !.name = last.arg])
              [] last.kind = "enabled" ->
                   ReplaceAt(prev, last.path, [current EXCEPT !.enabled = (last.arg = "true")])
              [] last.kind = "type" -> ReplaceAt(prev, last.path, onValueChange(current, last.arg))
              [] last.kind = "add" -> ReplaceAt(prev, last.path, addNestedField(current, last.arg))
              [] last.kind = "remove" -> RemoveAt(prev, last.path)

=============================================================================
